---- MODULE Spec2Model ----
(***************************************************************************)
(* Patient data export of the ENGAGE-HF backend: the exportData callable   *)
(* (authorization and scope selection) and DefaultExportService (scope     *)
(* resolution, the per-user fan-out of category queries, and the zip       *)
(* archive promise).                                                       *)
(***************************************************************************)
EXTENDS Bags, FiniteSets, Integers, Sequences, TLC

\* ------------------------------------------------------------------ bounds
\* Largest number of patient documents in the users collection.
MaxPatients == 2
\* Number of questionnaire documents in the questionnaires collection.
MaxQuestionnaires == 2
\* Number of members of UserObservationCollection that are modelled.
NumObservationCollections == 1

\* ------------------------------------------------------------- data model
Undefined == "undefined"

\* The result of a document lookup that finds nothing.
NoDocument == [id |-> Undefined, organization |-> Undefined]
\* The caller's user document before the handler has read it.
Unread == [id |-> "unread", organization |-> Undefined]

\* Organization ids used by the documents and the credentials: two ids that
\* differ only in case.
Organizations == {"stanford", "Stanford"}

PatientId(i) == "p" \o ToString(i)

\* Ids a request can name: every possible patient id and one more that is
\* never stored.
UserIds == {PatientId(i) : i \in 1..(MaxPatients + 1)}

\* The values of the UserObservationCollection enumeration.
UserObservationCollection ==
  <<"bloodPressureObservations", "bodyWeightObservations",
    "creatinineObservations", "dryWeightObservations", "eGfrObservations",
    "heartRateObservations", "potassiumObservations">>

ObservationCollections ==
  SubSeq(UserObservationCollection, 1, NumObservationCollections)

\* The per-user tables in the order of the Promise.all array; each name is
\* the file name of the table without ".csv".
Categories ==
  <<"appointments", "medicationRequests", "messages">>
    \o ObservationCollections
    \o <<"questionnaireResponses_kccq", "symptomScores">>

CategorySet == {Categories[i] : i \in 1..Len(Categories)}

QuestionnaireIds == <<"0", "dataUpdate_en_US", "postAppointment_en_US">>

\* Archive entry names.
QuestionnaireEntry(q) == "questionnaire_" \o q \o ".csv"
\* A user's table placed at the top level of the archive.
UserEntryFlat(u, c) == u \o "_" \o c \o ".csv"
\* A user's table named by the table alone.
UserEntryWithoutUser(u, c) == c \o ".csv"
\* `${userId}/${name}.csv` for every user id and table name.
UserEntryName ==
  [u \in UserIds, c \in CategorySet |-> u \o "/" \o c \o ".csv"]
UserEntry(u, c) == UserEntryName[u, c]

\* Names of the data-store queries.
QuestionnairesQuery == "questionnaires"
UserQueryName ==
  [u \in UserIds, c \in CategorySet |-> "users/" \o u \o "/" \o c]
UserQuery(u, c) == UserQueryName[u, c]

\* ------------------------------------------------------------- credential
AdminRole == [type |-> "admin", organization |-> Undefined]
OwnerRole(o) == [type |-> "owner", organization |-> o]
NoRole == [type |-> "none", organization |-> Undefined]

\* Credential.checkSingle: whether the caller's claims carry the role.
checkSingle(c, role) ==
  CASE role.type = "admin" -> c.type = "admin"
    [] role.type = "owner" ->
         c.type = "owner" /\ c.organization = role.organization
    [] OTHER -> FALSE

\* Credential.check: the first of the given roles the caller has, NoRole
\* standing for the permission-denied error.
check(c, roles) ==
  IF \E i \in 1..Len(roles) : checkSingle(c, roles[i])
  THEN roles[CHOOSE i \in 1..Len(roles) :
               /\ checkSingle(c, roles[i])
               /\ \A j \in 1..(i - 1) : ~checkSingle(c, roles[j])]
  ELSE NoRole

\* Credential.checkAsync: the role providers are tried in order, the first
\* role the caller has is returned.
checkAsync(c, providers) ==
  IF \E i \in 1..Len(providers) : check(c, providers[i]) # NoRole
  THEN check(c, providers[CHOOSE i \in 1..Len(providers) :
                            /\ check(c, providers[i]) # NoRole
                            /\ \A j \in 1..(i - 1) :
                                 check(c, providers[j]) = NoRole])
  ELSE NoRole

\* The callers: an admin, owners, a clinician and a patient.
Credentials ==
  {[type |-> "admin", organization |-> Undefined]}
    \cup {[type |-> "owner", organization |-> o] : o \in Organizations}
    \cup {[type |-> t, organization |-> "stanford"] :
            t \in {"clinician", "patient"}}

\* ------------------------------------------------------------------ state
VARIABLES
  patients,       \* users collection: the patient documents, in query order
  questionnaires, \* questionnaires collection: ids in query order
  credential,     \* the caller's claims
  requestUserId,  \* request.data.userId, or Undefined
  callerUser,     \* the caller's user document as the handler read it
  pc,             \* position of the exportData handler
  scope,          \* the export method the handler invoked and its argument
  userIds,        \* argument of createPatientsZipBuffer
  index,          \* number of users whose fan-out has been started
  generator,      \* state of the promise returned by generate(archive)
  status,         \* state of every data-store query of the generator
  queries,        \* bag of the data-store queries issued by the generator
  archive,        \* archiver: "none", "open", "finalized" or "ended"
  entries,        \* bag of the entry names appended to the archiver
  promise,        \* the export call's promise
  error,          \* the error the call was rejected with
  buffer,         \* <<entries of the zip>> once the call resolved, else <<>>
  inArrayOrder,   \* the archiver got each user's tables in Promise.all order
  fn,             \* the table function applied to input, "none" in an export
  input,          \* argument of the table function
  output          \* <<result>> once the table function was applied

vars ==
  <<patients, questionnaires, credential, requestUserId, callerUser, pc, scope,
    userIds, index, generator, status, queries, archive, entries, promise, error,
    buffer, inArrayOrder, fn, input, output>>

\* What an export reads and never writes: the collections, the request, and
\* the variables of the table functions.
storeVars ==
  <<patients, questionnaires, credential, requestUserId, fn, input, output>>
exportVars ==
  <<userIds, index, generator, status, queries, archive, entries, promise,
    error, buffer, inArrayOrder>>

QueryNames ==
  {QuestionnairesQuery} \cup {UserQuery(u, c) : u \in UserIds, c \in CategorySet}

PatientDocs(n) ==
  [1..n -> [id : UserIds, organization : Organizations \cup {Undefined}]]

Init ==
  /\ patients \in
       {p \in UNION {PatientDocs(n) : n \in 0..MaxPatients} :
          \A i \in DOMAIN p : p[i].id = PatientId(i)}
  /\ questionnaires = SubSeq(QuestionnaireIds, 1, MaxQuestionnaires)
  /\ credential \in Credentials
  /\ requestUserId \in UserIds \cup {Undefined}
  /\ callerUser = Unread
  /\ pc = "start"
  /\ scope = [kind |-> "none", arg |-> Undefined]
  /\ userIds = <<>>
  /\ index = 0
  /\ generator = "none"
  /\ status = [q \in QueryNames |-> "idle"]
  /\ queries = EmptyBag
  /\ archive = "none"
  /\ entries = EmptyBag
  /\ promise = "none"
  /\ error = "none"
  /\ buffer = <<>>
  /\ inArrayOrder = TRUE
  /\ fn = "none"
  /\ input = <<>>
  /\ output = <<>>

\* ------------------------------------------------------------ user service
\* UserService.getUser: the document with the id, or none.
getUser(id) ==
  IF \E i \in DOMAIN patients : patients[i].id = id
  THEN patients[CHOOSE i \in DOMAIN patients : patients[i].id = id]
  ELSE NoDocument

\* UserService.getAllPatients.
getAllPatients == patients

\* ------------------------------------------------------- createZipBuffer
\* reject(err) of the promise executor: a settled promise stays as it is.
reject(kind) ==
  IF promise = "pending"
  THEN promise' = "rejected" /\ error' = kind
  ELSE UNCHANGED <<promise, error>>

\* resolve(Buffer.concat(chunks)) of the promise executor.
resolve(content) ==
  IF promise = "pending"
  THEN promise' = "resolved" /\ buffer' = <<content>>
  ELSE UNCHANGED <<promise, buffer>>

\* The user whose tables the for loop of the generator is waiting for.
CurrentUser == userIds[index]

\* Promise.all of the current user has resolved (or the loop has not started).
AllSettled ==
  IF index = 0
  THEN TRUE
  ELSE \A c \in CategorySet : status[UserQuery(CurrentUser, c)] = "done"

\* createPatientsZipBuffer -> createZipBuffer: the archiver is created, the
\* generator is called and runs up to the await of the questionnaires query.
createPatientsZipBuffer(ids) ==
  /\ userIds' = ids
  /\ index' = 0
  /\ archive' = "open"
  /\ promise' = "pending"
  /\ generator' = "running"
  /\ status' = [status EXCEPT ![QuestionnairesQuery] = "pending"]
  /\ queries' = queries (+) SetToBag({QuestionnairesQuery})
  /\ UNCHANGED <<entries, error, buffer, inArrayOrder>>

\* ------------------------------------------------------------- exportData
Truthy(v) == v # Undefined /\ v # ""

\* The check with the owner role of the caller's own organization.
exportDataForUserIdOwnOrganization ==
  /\ pc = "start"
  /\ requestUserId # Undefined
  /\ LET roles == <<AdminRole, OwnerRole(credential.organization)>>
     IN IF check(credential, roles) = NoRole
        THEN pc' = "denied" /\ UNCHANGED scope
        ELSE /\ pc' = "exportPatientDataForUser"
             /\ scope' = [kind |-> "user", arg |-> requestUserId]
  /\ UNCHANGED <<storeVars, callerUser, exportVars>>

\* exportData, request.data.userId given: getUser, credential.check and the
\* call of exportPatientDataForUser.
exportDataForUserId ==
  /\ pc = "start"
  /\ requestUserId # Undefined
  /\ LET patient == getUser(requestUserId)
         roles == <<AdminRole>> \o
                    (IF patient # NoDocument /\ Truthy(patient.organization)
                     THEN <<OwnerRole(patient.organization)>>
                     ELSE <<>>)
     IN IF check(credential, roles) = NoRole
        THEN pc' = "denied" /\ UNCHANGED scope
        ELSE /\ pc' = "exportPatientDataForUser"
             /\ scope' = [kind |-> "user", arg |-> requestUserId]
  /\ UNCHANGED <<storeVars, callerUser, exportVars>>

\* The caller's user documents a lookup of credential.userId can find.
CallerUsers ==
  {NoDocument} \cup [id : {"caller"}, organization : Organizations \cup {Undefined}]

\* The owner role taken from the caller's claims, not from the document.
ownerRolesFromClaims(user) ==
  IF credential.organization # Undefined
  THEN <<OwnerRole(credential.organization)>>
  ELSE <<>>

\* The second role provider of the checkAsync call.
ownerRoles(user) ==
  IF user # NoDocument /\ user.organization # Undefined
  THEN <<OwnerRole(user.organization)>>
  ELSE <<>>

\* exportData, no userId: credential.checkAsync and the choice of the export.
\* The second provider reads the caller's document only when the first
\* provider gave no role the caller has.
exportDataForRole ==
  /\ pc = "start"
  /\ requestUserId = Undefined
  /\ \E user \in CallerUsers :
       LET providers == <<(<<AdminRole>>), ownerRoles(user)>>
           role == checkAsync(credential, providers)
       IN /\ callerUser' = IF check(credential, providers[1]) # NoRole
                           THEN Unread
                           ELSE user
          /\ CASE role = NoRole -> pc' = "denied" /\ UNCHANGED scope
               [] role = AdminRole ->
                    /\ pc' = "exportPatientDataForAll"
                    /\ scope' = [kind |-> "all", arg |-> Undefined]
               [] role # NoRole /\ role # AdminRole
                    /\ role.organization # Undefined ->
                    /\ pc' = "exportPatientDataForOrganization"
                    /\ scope' = [kind |-> "organization",
                                 arg |-> role.organization]
               [] OTHER -> pc' = "denied" /\ UNCHANGED scope
  /\ UNCHANGED <<storeVars, exportVars>>

\* What the handler answers: it awaits the export call and returns the buffer
\* base64-encoded, or throws the error of the check or of the call.
response ==
  CASE pc = "denied" -> "permission-denied"
    [] promise = "resolved" -> "content"
    [] promise = "rejected" -> error
    [] OTHER -> "none"

\* ---------------------------------------------------------- export service
\* exportPatientDataForUser without the test of the looked-up patient.
exportPatientDataForUserUnchecked ==
  /\ pc = "exportPatientDataForUser"
  /\ pc' = "awaitExport"
  /\ createPatientsZipBuffer(<<scope.arg>>)
  /\ UNCHANGED <<storeVars, callerUser, scope>>

exportPatientDataForUser ==
  /\ pc = "exportPatientDataForUser"
  /\ pc' = "awaitExport"
  /\ LET patient == getUser(scope.arg)
     IN IF patient = NoDocument
        THEN /\ promise' = "rejected"
             /\ error' = "not-found"
             /\ UNCHANGED <<userIds, index, generator, status, queries,
                            archive, entries, buffer, inArrayOrder>>
        ELSE createPatientsZipBuffer(<<patient.id>>)
  /\ UNCHANGED <<storeVars, callerUser, scope>>

\* Lower-casing of an organization id.
toLowerCase(o) == IF o = "Stanford" THEN "stanford" ELSE o

\* The filter with a case-insensitive comparison.
filteredPatientsIgnoringCase(organizationId) ==
  SelectSeq(getAllPatients,
            LAMBDA patient :
              toLowerCase(patient.organization) = toLowerCase(organizationId))

\* patients.filter(...).map(patient => patient.id)
filteredPatients(organizationId) ==
  SelectSeq(getAllPatients, LAMBDA patient : patient.organization = organizationId)

patientIds(docs) == [i \in DOMAIN docs |-> docs[i].id]

exportPatientDataForOrganization ==
  /\ pc = "exportPatientDataForOrganization"
  /\ pc' = "awaitExport"
  /\ createPatientsZipBuffer(patientIds(filteredPatients(scope.arg)))
  /\ UNCHANGED <<storeVars, callerUser, scope>>

exportPatientDataForAll ==
  /\ pc = "exportPatientDataForAll"
  /\ pc' = "awaitExport"
  /\ createPatientsZipBuffer(patientIds(getAllPatients))
  /\ UNCHANGED <<storeVars, callerUser, scope>>

\* -------------------------------------------------------------- generator
\* The rejection of the generator without the .catch(reject).
generatorThrowsUncaught ==
  IF generator = "running"
  THEN generator' = "rejected" /\ UNCHANGED <<promise, error>>
  ELSE UNCHANGED <<generator, promise, error>>

\* A rejection inside generate(archive): the generator's promise rejects once
\* and .catch(reject) rejects the call.
generatorThrows ==
  IF generator = "running"
  THEN generator' = "rejected" /\ reject("query")
  ELSE UNCHANGED <<generator, promise, error>>

questionnaireEntries ==
  [n \in {QuestionnaireEntry(questionnaires[i]) : i \in DOMAIN questionnaires} |->
     Cardinality({i \in DOMAIN questionnaires :
                    QuestionnaireEntry(questionnaires[i]) = n})]

\* addQuestionnaires: the query resolves and one table per questionnaire is
\* appended, or the method rejects (the query rejects or a projection throws).
addQuestionnaires ==
  /\ status[QuestionnairesQuery] = "pending"
  /\ \/ /\ status' = [status EXCEPT ![QuestionnairesQuery] = "done"]
        /\ entries' = entries (+) questionnaireEntries
        /\ UNCHANGED <<generator, promise, error>>
     \/ /\ status' = [status EXCEPT ![QuestionnairesQuery] = "failed"]
        /\ generatorThrows
        /\ UNCHANGED entries
  /\ UNCHANGED <<storeVars, callerUser, pc, scope, userIds, index, queries,
                 archive, buffer, inArrayOrder>>

\* The loop without the await of Promise.all: the next user is started while
\* tables of the current one are in flight.
fanOutWithoutAwait ==
  /\ generator = "running"
  /\ status[QuestionnairesQuery] = "done"
  /\ index < Len(userIds)
  /\ index' = index + 1
  /\ LET issued == {UserQuery(userIds[index + 1], c) : c \in CategorySet}
     IN /\ status' = [q \in QueryNames |->
                        IF q \in issued THEN "pending" ELSE status[q]]
        /\ queries' = queries (+) SetToBag(issued)
  /\ UNCHANGED <<storeVars, callerUser, pc, scope, userIds, generator, archive,
                 entries, promise, error, buffer, inArrayOrder>>

\* The loop with the questionnaire tables written once per user.
fanOutWithQuestionnaires ==
  /\ generator = "running"
  /\ status[QuestionnairesQuery] = "done"
  /\ AllSettled
  /\ index < Len(userIds)
  /\ index' = index + 1
  /\ LET issued == {UserQuery(userIds[index + 1], c) : c \in CategorySet}
     IN /\ status' = [q \in QueryNames |->
                        IF q \in issued THEN "pending" ELSE status[q]]
        /\ queries' = queries (+) SetToBag(issued \cup {QuestionnairesQuery})
  /\ entries' = entries (+) questionnaireEntries
  /\ UNCHANGED <<storeVars, callerUser, pc, scope, userIds, generator, archive,
                 promise, error, buffer, inArrayOrder>>

\* The loop started without the await of addQuestionnaires.
fanOutBeforeQuestionnaires ==
  /\ generator = "running"
  /\ AllSettled
  /\ index < Len(userIds)
  /\ index' = index + 1
  /\ LET issued == {UserQuery(userIds[index + 1], c) : c \in CategorySet}
     IN /\ status' = [q \in QueryNames |->
                        IF q \in issued THEN "pending" ELSE status[q]]
        /\ queries' = queries (+) SetToBag(issued)
  /\ UNCHANGED <<storeVars, callerUser, pc, scope, userIds, generator, archive,
                 entries, promise, error, buffer, inArrayOrder>>

\* The loop going on to the next user when every table of the current one
\* has settled, rejected ones included (Promise.allSettled).
fanOutAfterFailure ==
  /\ generator \in {"running", "rejected"}
  /\ status[QuestionnairesQuery] = "done"
  /\ IF index = 0
     THEN TRUE
     ELSE \A c \in CategorySet :
            status[UserQuery(CurrentUser, c)] \in {"done", "failed"}
  /\ index < Len(userIds)
  /\ index' = index + 1
  /\ LET issued == {UserQuery(userIds[index + 1], c) : c \in CategorySet}
     IN /\ status' = [q \in QueryNames |->
                        IF q \in issued THEN "pending" ELSE status[q]]
        /\ queries' = queries (+) SetToBag(issued)
  /\ UNCHANGED <<storeVars, callerUser, pc, scope, userIds, generator, archive,
                 entries, promise, error, buffer, inArrayOrder>>

\* One iteration of the for loop: the queries of all tables of the next user
\* are issued at once (the array given to Promise.all).
fanOut ==
  /\ generator = "running"
  /\ status[QuestionnairesQuery] = "done"
  /\ AllSettled
  /\ index < Len(userIds)
  /\ index' = index + 1
  /\ LET issued == {UserQuery(userIds[index + 1], c) : c \in CategorySet}
     IN /\ status' = [q \in QueryNames |->
                        IF q \in issued THEN "pending" ELSE status[q]]
        /\ queries' = queries (+) SetToBag(issued)
  /\ UNCHANGED <<storeVars, callerUser, pc, scope, userIds, generator, archive,
                 entries, promise, error, buffer, inArrayOrder>>

\* Position of a table in the Promise.all array.
ArrayIndex(name) == CHOOSE i \in DOMAIN Categories : Categories[i] = name

\* archiver.append keeps the entries in the order of the calls: the table is
\* appended in array order when the tables listed before it are appended.
AppendedBefore(userId, name) ==
  \A i \in 1..(ArrayIndex(name) - 1) :
    status[UserQuery(userId, Categories[i])] = "done"

\* A table whose rejected query is swallowed instead of rejecting Promise.all.
addUserTableIsolated(userId, name) ==
  /\ status[UserQuery(userId, name)] = "pending"
  /\ \/ /\ status' = [status EXCEPT ![UserQuery(userId, name)] = "done"]
        /\ entries' = entries (+) SetToBag({UserEntry(userId, name)})
        /\ inArrayOrder' = (inArrayOrder /\ AppendedBefore(userId, name))
     \/ /\ status' = [status EXCEPT ![UserQuery(userId, name)] = "failed"]
        /\ UNCHANGED <<entries, inArrayOrder>>
  /\ UNCHANGED <<storeVars, callerUser, pc, scope, userIds, index, queries,
                 archive, buffer, generator, promise, error>>

\* One table of a user: the query resolves and the table is appended under
\* `${userId}/${name}.csv`, or the method rejects (the query rejects or the
\* projection of a record throws) and with it Promise.all.
addUserTable(userId, name) ==
  /\ status[UserQuery(userId, name)] = "pending"
  /\ \/ /\ status' = [status EXCEPT ![UserQuery(userId, name)] = "done"]
        /\ entries' = entries (+) SetToBag({UserEntry(userId, name)})
        /\ inArrayOrder' = (inArrayOrder /\ AppendedBefore(userId, name))
        /\ UNCHANGED <<generator, promise, error>>
     \/ /\ status' = [status EXCEPT ![UserQuery(userId, name)] = "failed"]
        /\ generatorThrows
        /\ UNCHANGED <<entries, inArrayOrder>>
  /\ UNCHANGED <<storeVars, callerUser, pc, scope, userIds, index, queries,
                 archive, buffer>>

addUserAppointments == \E u \in UserIds : addUserTable(u, "appointments")

addUserMedicationRequests ==
  \E u \in UserIds : addUserTable(u, "medicationRequests")

addUserMessages == \E u \in UserIds : addUserTable(u, "messages")

addUserObservations ==
  \E u \in UserIds : \E i \in DOMAIN ObservationCollections :
    addUserTable(u, ObservationCollections[i])

addUserQuestionnaireResponses ==
  \E u \in UserIds : addUserTable(u, "questionnaireResponses_kccq")

addUserSymptomScores == \E u \in UserIds : addUserTable(u, "symptomScores")

\* finalize() called without awaiting the tables of the last user.
finalizeWithoutAwait ==
  /\ generator = "running"
  /\ status[QuestionnairesQuery] = "done"
  /\ index = Len(userIds)
  /\ generator' = "resolved"
  /\ archive' = "finalized"
  /\ UNCHANGED <<storeVars, callerUser, pc, scope, userIds, index, status,
                 queries, entries, promise, error, buffer, inArrayOrder>>

\* generate(archive) resolves after the last user: .then(() => archive.finalize())
finalize ==
  /\ generator = "running"
  /\ status[QuestionnairesQuery] = "done"
  /\ AllSettled
  /\ index = Len(userIds)
  /\ generator' = "resolved"
  /\ archive' = "finalized"
  /\ UNCHANGED <<storeVars, callerUser, pc, scope, userIds, index, status,
                 queries, entries, promise, error, buffer, inArrayOrder>>

\* archive.on("end"): the chunks are concatenated and the call resolves.
archiveEnd ==
  /\ archive = "finalized"
  /\ archive' = "ended"
  /\ resolve(entries)
  /\ UNCHANGED <<storeVars, callerUser, pc, scope, userIds, index, generator,
                 status, queries, entries, error, inArrayOrder>>

\* archive.on("error"): the writer fails while the archive is being written.
archiveError ==
  /\ archive \in {"open", "finalized"}
  /\ promise = "pending"
  /\ reject("writer")
  /\ UNCHANGED <<storeVars, callerUser, pc, scope, userIds, index, generator,
                 status, queries, archive, entries, buffer, inArrayOrder>>

Next ==
  \/ exportDataForUserId
  \/ exportDataForRole
  \/ exportPatientDataForUser
  \/ exportPatientDataForOrganization
  \/ exportPatientDataForAll
  \/ addQuestionnaires
  \/ fanOut
  \/ addUserAppointments
  \/ addUserMedicationRequests
  \/ addUserMessages
  \/ addUserObservations
  \/ addUserQuestionnaireResponses
  \/ addUserSymptomScores
  \/ finalize
  \/ archiveEnd
  \/ archiveError

Spec == Init /\ [][Next]_vars

\* ------------------------------------------------------------ properties
\* The ids of the documents of a sequence, as a set.
IdsOf(docs) == {docs[i].id : i \in DOMAIN docs}

UserIdSet == {userIds[i] : i \in DOMAIN userIds}

QuestionnaireEntrySet ==
  {QuestionnaireEntry(questionnaires[i]) : i \in DOMAIN questionnaires}

\* Names of the tables of each user as the archive layout lists them.
ArchiveLayout ==
  [u \in UserIds |->
     {u \o "/appointments.csv", u \o "/medicationRequests.csv",
      u \o "/messages.csv", u \o "/questionnaireResponses_kccq.csv",
      u \o "/symptomScores.csv"}
       \cup {u \o "/" \o ObservationCollections[i] \o ".csv" :
               i \in DOMAIN ObservationCollections}]

UserEntryNames(u) == ArchiveLayout[u]

\* Data-store queries of each user.
QueriesOfUser == [u \in UserIds |-> {UserQueryName[u, c] : c \in CategorySet}]

UserQueries(u) == QueriesOfUser[u]

\* C1: exportPatientDataForUser(userId) on an id that getUser resolves to no
\* patient rejects with not-found, and then no archive exists, no query of the
\* generator has been issued and no buffer is returned.
C1_NotFound ==
  (pc = "awaitExport" /\ scope.kind = "user"
     /\ \A i \in DOMAIN patients : patients[i].id # scope.arg)
    => /\ promise = "rejected"
       /\ error = "not-found"
       /\ archive = "none"
       /\ generator = "none"
       /\ queries = EmptyBag
       /\ entries = EmptyBag
       /\ buffer = <<>>

C1_Witness ==
  /\ pc = "awaitExport"
  /\ scope.kind = "user"
  /\ credential.type = "admin"
  /\ patients # <<>>
  /\ \A i \in DOMAIN patients : patients[i].id # scope.arg
  /\ response = "not-found"

\* C2: exportPatientDataForOrganization(o) resolves exactly the patients whose
\* organization equals o; queries are issued and entries appended for those
\* patients only, and a completed generator has appended every table of each.
C2_OrganizationFilter ==
  (pc = "awaitExport" /\ scope.kind = "organization")
    => LET members == {patients[i].id : i \in
                         {j \in DOMAIN patients :
                            patients[j].organization = scope.arg}}
       IN /\ UserIdSet = members
          /\ \A u \in UserIds \ members :
               /\ \A q \in UserQueries(u) : ~BagIn(q, queries)
               /\ \A n \in UserEntryNames(u) : ~BagIn(n, entries)
          /\ generator = "resolved" =>
               \A u \in members :
                 /\ \A q \in UserQueries(u) : BagIn(q, queries)
                 /\ \A n \in UserEntryNames(u) : BagIn(n, entries)

C2_Witness ==
  /\ pc = "awaitExport"
  /\ scope = [kind |-> "organization", arg |-> "stanford"]
  /\ generator = "resolved"
  /\ \E i \in DOMAIN patients : patients[i].organization = "stanford"
  /\ \E i \in DOMAIN patients : patients[i].organization = "Stanford"

\* C3: the archive of a successful export holds exactly one entry
\* questionnaire_{q}.csv per questionnaire and, per resolved user, the tables
\* appointments, medicationRequests, messages, questionnaireResponses_kccq,
\* symptomScores and one per observation collection; with no resolved user it
\* holds the questionnaire tables only.
C3_ArchiveLayout ==
  promise = "resolved"
    => /\ Len(buffer) = 1
       /\ BagToSet(buffer[1]) =
            QuestionnaireEntrySet \cup UNION {UserEntryNames(u) : u \in UserIdSet}
       /\ userIds = <<>> => BagToSet(buffer[1]) = QuestionnaireEntrySet

C3_Witness ==
  /\ promise = "resolved"
  /\ Len(userIds) = 2
  /\ Cardinality(BagToSet(buffer[1])) =
       Len(questionnaires) + 2 * Len(Categories)

\* C4: the archive is finalized only after the generator resolved, when every
\* table of every resolved user is appended and no query is in flight; nothing
\* is appended once finalize was called; a rejected generator never finalizes.
C4_Finalized ==
  /\ archive \in {"finalized", "ended"} =>
       /\ generator = "resolved"
       /\ \A q \in QueryNames : status[q] \in {"idle", "done"}
       /\ \A u \in UserIdSet :
            /\ \A q \in UserQueries(u) : status[q] = "done"
            /\ \A n \in UserEntryNames(u) : BagIn(n, entries)
  /\ generator = "rejected" => archive = "open"

C4_FinalizeAfterGenerator ==
  [](C4_Finalized)
    /\ [][(archive \in {"finalized", "ended"}) => (entries' = entries)]_vars

C4_Witness ==
  /\ archive = "finalized"
  /\ Len(userIds) = 2
  /\ promise = "pending"

\* C5: a rejected query or an error of the archive writer rejects the call,
\* which then never holds a buffer; a call that resolves holds the finalized
\* archive with every appended entry of a generator that ran to its end.
C5_Settled ==
  /\ ((\E q \in QueryNames : status[q] = "failed") \/ error = "writer")
       => promise = "rejected" /\ buffer = <<>>
  /\ promise = "rejected" => buffer = <<>>
  /\ promise = "resolved" =>
       /\ archive = "ended"
       /\ generator = "resolved"
       /\ buffer = <<entries>>
       /\ \A q \in QueryNames : status[q] \in {"idle", "done"}

C5_RejectOrComplete ==
  [](C5_Settled) /\ [][(promise = "rejected") => (promise' = "rejected")]_vars

C5_Witness ==
  /\ archive = "ended"
  /\ error = "writer"
  /\ promise = "rejected"
  /\ generator = "resolved"

\* Some data-store query of user u is in the given state.
SomeQuery(u, st) == \E q \in UserQueries(u) : status[q] = st

\* C6 as stated: once a table of a user failed, no entry of that user is in
\* the archive writer.
C6_NoEntryOfFailedUser ==
  \A u \in UserIds :
    SomeQuery(u, "failed") => \A n \in UserEntryNames(u) : ~BagIn(n, entries)

\* C6 amended: the tables of a user are queried together and joined
\* fail-fast; once one of them failed the generator is rejected, the archive
\* is never finalized and the call is rejected without a buffer, so no entry
\* of that user reaches the caller (its other tables may still be appended to
\* the discarded archive writer).
C6_FailedUserRejectsCall ==
  \A u \in UserIds :
    /\ (\E q \in UserQueries(u) : status[q] # "idle")
         => \A q \in UserQueries(u) : status[q] # "idle" /\ BagIn(q, queries)
    /\ SomeQuery(u, "failed") =>
         /\ generator = "rejected"
         /\ archive = "open"
         /\ promise = "rejected"
         /\ buffer = <<>>

C6_Witness ==
  \E u \in UserIds :
    /\ SomeQuery(u, "failed")
    /\ SomeQuery(u, "pending")
    /\ \E n \in UserEntryNames(u) : BagIn(n, entries)

\* C7: the queries in flight belong to one user, and a user's queries are
\* issued only when every table of every earlier user of the list is done.
C7_OneUserAtATime ==
  /\ \A u1, u2 \in UserIds :
       (SomeQuery(u1, "pending") /\ SomeQuery(u2, "pending")) => u1 = u2
  /\ \A i \in DOMAIN userIds :
       (\E q \in UserQueries(userIds[i]) : BagIn(q, queries))
         => /\ i <= index
            /\ \A j \in 1..(i - 1) :
                 \A q \in UserQueries(userIds[j]) : status[q] = "done"

C7_Witness ==
  /\ index = 2
  /\ SomeQuery(userIds[2], "pending")
  /\ SomeQuery(userIds[2], "done")

\* C8: the questionnaires are queried once per export call, each
\* questionnaire table is appended once, whatever the number of users, and
\* before any query of a user is issued.
C8_QuestionnairesOnce ==
  /\ CopiesIn(QuestionnairesQuery, queries) = IF archive = "none" THEN 0 ELSE 1
  /\ \A n \in QuestionnaireEntrySet :
       CopiesIn(n, entries) =
         IF status[QuestionnairesQuery] = "done" THEN 1 ELSE 0
  /\ (\E u \in UserIds : \E q \in UserQueries(u) : BagIn(q, queries))
       => status[QuestionnairesQuery] = "done"

C8_Witness ==
  /\ index = 2
  /\ generator = "resolved"
  /\ \A n \in QuestionnaireEntrySet : CopiesIn(n, entries) = 1

\* C9: with a userId in the request the export service is invoked only for an
\* admin or an owner of the named patient's organization; any other caller is
\* denied before any export work, and for an unknown id only an admin passes.
C9_UserIdAuthorization ==
  (requestUserId # Undefined /\ pc # "start")
    => LET authorized ==
             \/ credential.type = "admin"
             \/ /\ credential.type = "owner"
                /\ \E i \in DOMAIN patients :
                     /\ patients[i].id = requestUserId
                     /\ patients[i].organization = credential.organization
       IN IF authorized
          THEN pc # "denied" /\ scope = [kind |-> "user", arg |-> requestUserId]
          ELSE /\ pc = "denied"
               /\ response = "permission-denied"
               /\ scope.kind = "none"
               /\ archive = "none"
               /\ promise = "none"
               /\ queries = EmptyBag

C9_Witness ==
  /\ requestUserId # Undefined
  /\ pc = "denied"
  /\ credential.type = "owner"
  /\ \E i \in DOMAIN patients :
       /\ patients[i].id = requestUserId
       /\ patients[i].organization \in Organizations

\* No export work has been done.
NoExport ==
  /\ pc = "denied"
  /\ response = "permission-denied"
  /\ scope.kind = "none"
  /\ archive = "none"
  /\ promise = "none"
  /\ queries = EmptyBag

\* C10 as stated: without a userId the caller's role alone selects the export.
C10_ScopeByRoleAlone ==
  (requestUserId = Undefined /\ pc # "start")
    => CASE credential.type = "admin" ->
              scope = [kind |-> "all", arg |-> Undefined]
         [] credential.type = "owner" ->
              scope = [kind |-> "organization", arg |-> credential.organization]
         [] OTHER -> NoExport

\* C10 amended: an admin gets the export of all patients; an owner gets the
\* export of organization o when o is both the organization of its claims and
\* of its stored user document; every other caller, an owner whose document is
\* missing or names another organization included, is denied without export.
C10_ScopeByRoleAndDocument ==
  /\ (requestUserId = Undefined /\ pc # "start")
       => CASE credential.type = "admin" ->
                 scope = [kind |-> "all", arg |-> Undefined]
            [] credential.type = "owner"
                 /\ callerUser.organization = credential.organization ->
                 scope = [kind |-> "organization",
                          arg |-> credential.organization]
            [] OTHER -> NoExport
  /\ (pc = "awaitExport" /\ scope.kind = "all") => UserIdSet = IdsOf(patients)
  /\ (pc = "awaitExport" /\ scope.kind = "organization")
       => \A i \in DOMAIN patients :
            patients[i].id \in UserIdSet <=> patients[i].organization = scope.arg

C10_Witness ==
  /\ requestUserId = Undefined
  /\ credential.type = "owner"
  /\ callerUser.organization = credential.organization
  /\ pc = "awaitExport"
  /\ promise = "resolved"
  /\ userIds # <<>>

\* C16 as stated: the entries are appended in one order, that of the
\* Promise.all array, whatever the order in which the queries complete.
C16_AppendOrderFixed == generator = "resolved" => inArrayOrder

\* C16: under every interleaving the questionnaire tables are appended before
\* any table of a user, the tables of a user after all tables of the users
\* before it in the list, and the finished archive holds the same entries,
\* each once; the order of the tables of one user is the order in which
\* their queries complete.
C16_SameEntriesInUserOrder ==
  /\ \A u \in UserIds :
       (\E n \in UserEntryNames(u) : BagIn(n, entries))
         => \A q \in QuestionnaireEntrySet : BagIn(q, entries)
  /\ \A i \in DOMAIN userIds :
       (\E n \in UserEntryNames(userIds[i]) : BagIn(n, entries))
         => \A j \in 1..(i - 1) :
              \A n \in UserEntryNames(userIds[j]) : BagIn(n, entries)
  /\ generator = "resolved" =>
       entries =
         SetToBag(QuestionnaireEntrySet
                    \cup UNION {UserEntryNames(u) : u \in UserIdSet})

C16_Witness ==
  /\ generator = "resolved"
  /\ Len(userIds) = 2
  /\ ~inArrayOrder

SomeFailed == \E q \in QueryNames : status[q] = "failed"

\* C17: every query is issued at most once; once a query has failed no query
\* is issued and the loop does not move on, so the users after the failing
\* one are never queried.
C17_FailureIsTerminal ==
  /\ [](/\ \A q \in QueryNames : CopiesIn(q, queries) <= 1
        /\ SomeFailed =>
             \A i \in DOMAIN userIds :
               i > index => \A q \in UserQueries(userIds[i]) : ~BagIn(q, queries))
  /\ [][(SomeFailed) => (queries' = queries /\ index' = index)]_vars

C17_Witness ==
  /\ Len(userIds) = 2
  /\ index = 1
  /\ generator = "rejected"
  /\ SomeQuery(userIds[1], "failed")
  /\ ~SomeQuery(userIds[1], "pending")
  /\ SomeQuery(userIds[1], "done")
  /\ \A q \in UserQueries(userIds[2]) : ~BagIn(q, queries)

\* The paths of the tables of all questionnaires and of all users differ.
PathsDistinct ==
  /\ \A u1, u2 \in UserIds : \A c1, c2 \in CategorySet :
       UserEntry(u1, c1) = UserEntry(u2, c2) => (u1 = u2 /\ c1 = c2)
  /\ \A u \in UserIds : \A c \in CategorySet :
       \A i \in DOMAIN QuestionnaireIds :
         UserEntry(u, c) # QuestionnaireEntry(QuestionnaireIds[i])
  /\ \A i, j \in DOMAIN QuestionnaireIds :
       QuestionnaireEntry(QuestionnaireIds[i]) = QuestionnaireEntry(QuestionnaireIds[j])
         => i = j

\* C18: no path is appended twice: every entry of the archive writer is
\* there once, and the paths of the questionnaires and of the tables of the
\* users are pairwise distinct.
C18_UniquePaths ==
  /\ \A n \in BagToSet(entries) : CopiesIn(n, entries) = 1
  /\ PathsDistinct

C18_Witness ==
  /\ generator = "resolved"
  /\ Len(userIds) = 2
  /\ inArrayOrder
  /\ Cardinality(BagToSet(entries)) = Len(questionnaires) + 2 * Len(Categories)

\* ================================================================ tables
\* The table functions of the export service. A string is a sequence of
\* characters; the cell `undefined` is the one-element sequence <<Undefined>>.

\* Largest length of a field given to escapeCsvField.
MaxFieldLen == 3
\* Largest number of records of a table.
MaxRows == 2

Absent == <<Undefined>>

FormulaChars == {"=", "+", "-", "@"}
SpecialChars == {";", "\n", "\""}

\* field.replace(/"/g, '""')
RECURSIVE replaceQuotes(_)
replaceQuotes(field) ==
  IF field = <<>>
  THEN <<>>
  ELSE (IF Head(field) = "\"" THEN <<"\"", "\"">> ELSE <<Head(field)>>)
         \o replaceQuotes(Tail(field))

\* escapeCsvField that wraps in quotes without doubling the quotes inside.
escapeCsvFieldUndoubled(field) ==
  LET prefixed == IF field # <<>> /\ Head(field) \in FormulaChars
                  THEN <<"'">> \o field
                  ELSE field
  IN IF \E i \in DOMAIN prefixed : prefixed[i] \in SpecialChars
     THEN <<"\"">> \o prefixed \o <<"\"">>
     ELSE prefixed

\* escapeCsvField whose second test leaves the newline out: /[;"]/.
escapeCsvFieldNewline(field) ==
  LET prefixed == IF field # <<>> /\ Head(field) \in FormulaChars
                  THEN <<"'">> \o field
                  ELSE field
  IN IF \E i \in DOMAIN prefixed : prefixed[i] \in {";", "\""}
     THEN <<"\"">> \o replaceQuotes(prefixed) \o <<"\"">>
     ELSE prefixed

\* escapeCsvField: /^[=+\-@]/ prepends an apostrophe, /[;\n"]/ wraps the
\* field in quotes with the quotes inside doubled. The regular expressions
\* read `undefined` as the text "undefined", which matches neither.
escapeCsvField(field) ==
  LET prefixed == IF field # <<>> /\ Head(field) \in FormulaChars
                  THEN <<"'">> \o field
                  ELSE field
  IN IF \E i \in DOMAIN prefixed : prefixed[i] \in SpecialChars
     THEN <<"\"">> \o replaceQuotes(prefixed) \o <<"\"">>
     ELSE prefixed

\* join that writes an element `undefined` as the word undefined.
RECURSIVE joinUndefinedAsText(_, _)
joinUndefinedAsText(elements, separator) ==
  IF elements = <<>>
  THEN <<>>
  ELSE (IF Head(elements) = Absent
        THEN <<"u", "n", "d", "e", "f", "i", "n", "e", "d">>
        ELSE Head(elements))
         \o (IF Len(elements) > 1
             THEN <<separator>>
                    \o joinUndefinedAsText(Tail(elements), separator)
             ELSE <<>>)

\* Array.prototype.join: the elements separated by the separator, an
\* element `undefined` giving the empty string.
RECURSIVE join(_, _)
join(elements, separator) ==
  IF elements = <<>>
  THEN <<>>
  ELSE (IF Head(elements) = Absent THEN <<>> ELSE Head(elements))
         \o (IF Len(elements) > 1
             THEN <<separator>> \o join(Tail(elements), separator)
             ELSE <<>>)

\* One line of a table: row.map(escapeCsvField).join(";")
csvLine(cells) == join([i \in DOMAIN cells |-> escapeCsvField(cells[i])], ";")

\* createCsvBuffer that ends every line, the last one too, with "\n".
createCsvBufferTerminated(headers, rows) ==
  join(<<csvLine(headers)>> \o [i \in DOMAIN rows |-> csvLine(rows[i])], "\n")
    \o <<"\n">>

\* createCsvBuffer(headers, values, row), rows being values.map(row).
createCsvBuffer(headers, rows) ==
  join(<<csvLine(headers)>> \o [i \in DOMAIN rows |-> csvLine(rows[i])], "\n")

\* ---------------------------------------------------------- table inputs
FieldAlphabet == FormulaChars \cup SpecialChars \cup {"a", "'"}

RECURSIVE StringsUpTo(_, _)
StringsUpTo(alphabet, n) ==
  IF n = 0
  THEN {<<>>}
  ELSE LET shorter == StringsUpTo(alphabet, n - 1)
       IN shorter \cup {<<c>> \o t : c \in alphabet, t \in shorter}

\* The fields of the examples: =SUM(A1), a;b and a"b.
ExampleFields ==
  {<<"=", "S", "U", "M", "(", "A", "1", ")">>, <<"a", ";", "b">>,
   <<"a", "\"", "b">>}

Fields == StringsUpTo(FieldAlphabet, MaxFieldLen) \cup ExampleFields

\* Header lists: the one of a one-column table and one with a header that
\* needs the apostrophe and the quotes.
HeaderLists == {<< <<"i", "d">> >>, << <<"i", "d">>, <<"-", "x", ";", "y">> >>}

\* Cells of the records of a table.
CellSamples ==
  {<<>>, <<"a">>, <<"=", "a">>, <<"a", ";", "\"">>, <<"\n", "b">>}

TableInputs ==
  UNION {[headers : {h}, rows : [1..n -> [1..Len(h) -> CellSamples]]] :
           h \in HeaderLists, n \in 0..MaxRows}

\* The export is not running while a table function is applied.
TablesIdle ==
  /\ patients = <<>>
  /\ questionnaires = <<>>
  /\ credential = [type |-> "admin", organization |-> Undefined]
  /\ requestUserId = Undefined
  /\ callerUser = Unread
  /\ pc = "tables"
  /\ scope = [kind |-> "none", arg |-> Undefined]
  /\ userIds = <<>>
  /\ index = 0
  /\ generator = "none"
  /\ status = [q \in QueryNames |-> "idle"]
  /\ queries = EmptyBag
  /\ archive = "none"
  /\ entries = EmptyBag
  /\ promise = "none"
  /\ error = "none"
  /\ buffer = <<>>
  /\ inArrayOrder = TRUE

exportState ==
  <<patients, questionnaires, credential, requestUserId, callerUser, pc, scope,
    userIds, index, generator, status, queries, archive, entries, promise,
    error, buffer, inArrayOrder>>

applyEscapeCsvField ==
  /\ fn = "escapeCsvField"
  /\ output = <<>>
  /\ output' = <<escapeCsvField(input)>>
  /\ UNCHANGED <<exportState, fn, input>>

applyCreateCsvBuffer ==
  /\ fn = "createCsvBuffer"
  /\ output = <<>>
  /\ output' = <<createCsvBuffer(input.headers, input.rows)>>
  /\ UNCHANGED <<exportState, fn, input>>

CsvInit ==
  /\ TablesIdle
  /\ output = <<>>
  /\ \/ fn = "escapeCsvField" /\ input \in Fields
     \/ fn = "createCsvBuffer" /\ input \in TableInputs

CsvNext == applyEscapeCsvField \/ applyCreateCsvBuffer

SpecCsv == CsvInit /\ [][CsvNext]_vars

\* ------------------------------------------------------ reading a table
\* A reader of the table format: cells separated by ";", lines by "\n", a
\* cell that starts with a quote runs to its closing quote, a doubled quote
\* inside it standing for one quote.
RECURSIVE ParseFrom(_, _, _, _)
ParseFrom(text, row, cell, mode) ==
  IF text = <<>>
  THEN <<row \o <<cell>>>>
  ELSE LET c == Head(text)
           rest == Tail(text)
       IN IF mode = "quoted"
          THEN IF c = "\""
               THEN ParseFrom(rest, row, cell, "quoteSeen")
               ELSE ParseFrom(rest, row, cell \o <<c>>, "quoted")
          ELSE IF c = "\"" /\ mode = "quoteSeen"
          THEN ParseFrom(rest, row, cell \o <<c>>, "quoted")
          ELSE IF c = "\"" /\ mode = "start"
          THEN ParseFrom(rest, row, cell, "quoted")
          ELSE IF c = ";"
          THEN ParseFrom(rest, row \o <<cell>>, <<>>, "start")
          ELSE IF c = "\n"
          THEN <<row \o <<cell>>>> \o ParseFrom(rest, <<>>, <<>>, "start")
          ELSE ParseFrom(rest, row, cell \o <<c>>, "plain")

parseCsv(text) == ParseFrom(text, <<>>, <<>>, "start")

StartsFormula(field) == field # <<>> /\ Head(field) \in FormulaChars

\* The text of a cell as a spreadsheet is to show it.
Neutralised(field) == IF StartsFormula(field) THEN <<"'">> \o field ELSE field

NeutralisedRow(cells) == [i \in DOMAIN cells |-> Neutralised(cells[i])]

QuotesBefore(field, i) == Cardinality({j \in 1..(i - 1) : field[j] = "\""})

Escaped == fn = "escapeCsvField" /\ output # <<>>
TableBuilt == fn = "createCsvBuffer" /\ output # <<>>

\* C11 as stated: reading the text createCsvBuffer built gives back the
\* header list and every cell of every record unchanged.
C11_RoundTrip ==
  TableBuilt =>
    parseCsv(output[1]) = <<input.headers>> \o input.rows

\* C11: reading the text createCsvBuffer built gives back every header and
\* cell that does not start with = + - @ unchanged, and every one that does
\* with an apostrophe in front of it.
C11_RoundTripUpToApostrophe ==
  TableBuilt =>
    parseCsv(output[1]) =
      <<NeutralisedRow(input.headers)>>
        \o [i \in DOMAIN input.rows |-> NeutralisedRow(input.rows[i])]

C11_Witness ==
  /\ TableBuilt
  /\ Len(input.rows) = MaxRows
  /\ \E i \in DOMAIN input.rows : \E j \in DOMAIN input.rows[i] :
       /\ input.rows[i][j] = <<"a", ";", "\"">>
       /\ \E k \in DOMAIN input.rows[i] : StartsFormula(input.rows[i][k])

\* C12: a field that starts with = + - @ gets an apostrophe in front; the
\* result, if it holds a semicolon, a newline or a quote, is wrapped in
\* quotes with every quote inside doubled; otherwise it is returned as it
\* is. =SUM(A1) gives '=SUM(A1), a;b gives "a;b", a"b gives "a""b".
C12_EscapeCsvField ==
  Escaped =>
    LET p == Neutralised(input)
        o == output[1]
        n == Len(p)
    IN /\ IF \E i \in 1..n : p[i] \in SpecialChars
          THEN /\ Len(o) = n + QuotesBefore(p, n + 1) + 2
               /\ o[1] = "\""
               /\ o[Len(o)] = "\""
               /\ \A i \in 1..n :
                    /\ o[1 + i + QuotesBefore(p, i)] = p[i]
                    /\ p[i] = "\"" => o[2 + i + QuotesBefore(p, i)] = "\""
          ELSE o = p
       /\ input = <<"=", "S", "U", "M", "(", "A", "1", ")">>
            => o = <<"'", "=", "S", "U", "M", "(", "A", "1", ")">>
       /\ input = <<"a", ";", "b">> => o = <<"\"", "a", ";", "b", "\"">>
       /\ input = <<"a", "\"", "b">>
            => o = <<"\"", "a", "\"", "\"", "b", "\"">>

C12_Witness ==
  /\ Escaped
  /\ StartsFormula(input)
  /\ \E i \in DOMAIN input : input[i] = "\""
  /\ Len(output[1]) = Len(input) + 4

\* C13: the text has one line for the headers followed by one line per
\* record in the order of the records, and every line has as many cells as
\* there are headers.
C13_RowsAndCells ==
  TableBuilt =>
    LET table == parseCsv(output[1])
    IN /\ Len(table) = Len(input.rows) + 1
       /\ table[1] = NeutralisedRow(input.headers)
       /\ \A r \in DOMAIN table : Len(table[r]) = Len(input.headers)
       /\ \A i \in DOMAIN input.rows :
            table[i + 1][1] = Neutralised(input.rows[i][1])

C13_Witness ==
  /\ TableBuilt
  /\ Len(input.headers) > 1
  /\ Len(input.rows) = MaxRows
  /\ input.rows[1] # input.rows[MaxRows]
  /\ \E j \in DOMAIN input.rows[1] : "\n" \in {input.rows[1][j][k] : k \in DOMAIN input.rows[1][j]}

\* ================================================== questionnaire items
\* Largest number of items of a questionnaire, at all levels together.
MaxItems == 5

\* An item is [linkId, hasItem, item]: hasItem is whether the field `item`
\* is there, item its list. The linkId of an item is its path from the
\* questionnaire, which has the same shape and the empty path.
Item(linkId, hasItem, children) ==
  [linkId |-> linkId, hasItem |-> hasItem, item |-> children]

RECURSIVE leafItems(_)
RECURSIVE leafItemsOfList(_)

\* leafItems that returns the item itself followed by the leaves below it.
leafItemsWithParents(item) ==
  IF ~item.hasItem \/ Len(item.item) = 0
  THEN <<item>>
  ELSE <<item>> \o leafItemsOfList(item.item)

\* leafItems(item)
leafItems(item) ==
  IF ~item.hasItem \/ Len(item.item) = 0
  THEN <<item>>
  ELSE leafItemsOfList(item.item)

\* items.flatMap((child) => leafItems(child))
leafItemsOfList(items) ==
  IF Len(items) = 0
  THEN <<>>
  ELSE leafItems(Head(items)) \o leafItemsOfList(Tail(items))

\* (questionnaire.content.item ?? []).flatMap((item) => leafItems(item))
questionnaireItems(content) ==
  leafItemsOfList(IF content.hasItem THEN content.item ELSE <<>>)

\* The lists of items that hold `n` items at all levels together, the first
\* item of the list being child number `i` of the item at `path`; `listed`
\* is whether the items without children carry an empty list or no list.
RECURSIVE ItemLists(_, _, _, _)
ItemLists(n, path, i, listed) ==
  IF n = 0
  THEN {<<>>}
  ELSE UNION
         {{<<Item(path \o <<i>>, children # <<>> \/ listed, children)>> \o rest :
             children \in ItemLists(k - 1, path \o <<i>>, 1, listed),
             rest \in ItemLists(n - k, path, i + 1, listed)} :
            k \in 1..n}

QuestionnairesWith(listed) ==
  {Item(<<>>, items # <<>> \/ listed, items) :
     items \in UNION {ItemLists(n, <<>>, 1, listed) : n \in 0..MaxItems}}

Questionnaires == QuestionnairesWith(TRUE) \cup QuestionnairesWith(FALSE)

applyLeafItems ==
  /\ fn = "leafItems"
  /\ output = <<>>
  /\ output' = <<questionnaireItems(input)>>
  /\ UNCHANGED <<exportState, fn, input>>

ItemsInit ==
  /\ TablesIdle
  /\ output = <<>>
  /\ fn = "leafItems"
  /\ input \in Questionnaires

ItemsNext == applyLeafItems

SpecItems == ItemsInit /\ [][ItemsNext]_vars

\* The item at a path below an item, and whether there is one.
RECURSIVE HasItemAt(_, _)
HasItemAt(item, path) ==
  IF path = <<>>
  THEN TRUE
  ELSE /\ Head(path) \in DOMAIN item.item
       /\ HasItemAt(item.item[Head(path)], Tail(path))

RECURSIVE ItemAt(_, _)
ItemAt(item, path) ==
  IF path = <<>> THEN item ELSE ItemAt(item.item[Head(path)], Tail(path))

\* The paths of items in a questionnaire of `n` items: child number i of an
\* item has i - 1 items before it.
RECURSIVE PathsWithin(_)
PathsWithin(n) ==
  {<<>>} \cup UNION {{<<i>> \o path : path \in PathsWithin(n - i)} : i \in 1..n}

ItemPaths == PathsWithin(MaxItems) \ {<<>>}

LeafPaths(content) ==
  {path \in ItemPaths :
     HasItemAt(content, path) /\ Len(ItemAt(content, path).item) = 0}

\* path p comes before path q in depth-first order, neither under the other
RECURSIVE Precedes(_, _)
Precedes(p, q) ==
  /\ p # <<>>
  /\ q # <<>>
  /\ \/ Head(p) < Head(q)
     \/ Head(p) = Head(q) /\ Precedes(Tail(p), Tail(q))

LeavesCollected == fn = "leafItems" /\ output # <<>>

\* A(children: A1, A2(children: A2a)) as the only item of a questionnaire
ExampleQuestionnaire ==
  Item(<<>>, TRUE,
       <<Item(<<1>>, TRUE,
              <<Item(<<1, 1>>, FALSE, <<>>),
                Item(<<1, 2>>, TRUE, <<Item(<<1, 2, 1>>, FALSE, <<>>)>>)>>)>>)

\* C14: the rows of a questionnaire's table are its items without children
\* (no list or an empty one), each once, in depth-first order with the
\* children in their order; no item that has children is a row.
C14_LeafItems ==
  LeavesCollected =>
    LET rows == output[1]
    IN /\ {rows[i].linkId : i \in DOMAIN rows} = LeafPaths(input)
       /\ \A i \in DOMAIN rows :
            /\ rows[i] = ItemAt(input, rows[i].linkId)
            /\ Len(rows[i].item) = 0
       /\ \A i, j \in DOMAIN rows :
            i < j => Precedes(rows[i].linkId, rows[j].linkId)
       /\ input = ExampleQuestionnaire =>
            [i \in DOMAIN rows |-> rows[i].linkId] = << <<1, 1>>, <<1, 2, 1>> >>

C14_Witness ==
  /\ LeavesCollected
  /\ input = ExampleQuestionnaire
  /\ Len(output[1]) > 1

\* ====================================================== row projections
\* Largest length of a medication reference.
MaxReferenceLen == 7
\* Largest number of components of an observation.
MaxComponents == 2

\* An optional value is <<>> when it is missing and <<v>> when it is v.
Optional(values) == {<<>>} \cup {<<v>> : v \in values}

Digit(d) == <<"0", "1", "2", "3", "4", "5", "6", "7", "8", "9">>[d + 1]

\* Number.prototype.toString of a natural number
RECURSIVE toString(_)
toString(n) ==
  IF n < 10 THEN <<Digit(n)>> ELSE toString(n \div 10) \o <<Digit(n % 10)>>

\* Date.prototype.toISOString of the first instant of a day
toISOString(date) ==
  LET pad(n) == IF n < 10 THEN <<"0">> \o toString(n) ELSE toString(n)
  IN toString(date.year) \o <<"-">> \o pad(date.month) \o <<"-">>
       \o pad(date.day)
       \o <<"T", "0", "0", ":", "0", "0", ":", "0", "0", ".", "0", "0", "0", "Z">>

\* String.prototype.split(separator): "" gives one empty part.
RECURSIVE SplitFrom(_, _, _)
SplitFrom(text, separator, part) ==
  IF text = <<>>
  THEN <<part>>
  ELSE IF Head(text) = separator
       THEN <<part>> \o SplitFrom(Tail(text), separator, <<>>)
       ELSE SplitFrom(Tail(text), separator, part \o <<Head(text)>>)

split(text, separator) == SplitFrom(text, separator, <<>>)

\* array[i] of JavaScript, i counted from 0: undefined past the end
ElementAt(array, i) == IF i + 1 \in DOMAIN array THEN array[i + 1] ELSE Absent

\* optional?.toString() ?? ""
numberOrEmpty(optional) ==
  IF optional = <<>> THEN <<>> ELSE toString(optional[1])

\* optional ?? ""
textOrEmpty(optional) == IF optional = <<>> THEN <<>> ELSE optional[1]

MedicationHeaders ==
  <<
    <<"i", "d">>,
    <<"m", "e", "d", "i", "c", "a", "t", "i", "o", "n", "C", "o", "d", "e", " ", "(", "R", "x", "N", "o", "r", "m", ")">>,
    <<"d", "r", "u", "g", "C", "o", "d", "e", " ", "(", "R", "x", "N", "o", "r", "m", ")">>,
    <<"q", "u", "a", "n", "t", "i", "t", "y">>,
    <<"q", "u", "a", "n", "t", "i", "t", "y", "U", "n", "i", "t">>,
    <<"f", "r", "e", "q", "u", "e", "n", "c", "y", "P", "e", "r", "D", "a", "y">>
  >>

\* The row of a medication request. dosageInstruction?.at(0) is the first
\* dosage instruction or undefined; a missing list reads as an empty one.
medicationRequestRow(value) ==
  LET referenceParts == split(textOrEmpty(value.reference), "/")
      dosage == value.dosageInstruction
      quantity == IF dosage = <<>> THEN <<>> ELSE dosage[1].doseQuantity
      frequency == IF dosage = <<>> THEN <<>> ELSE dosage[1].frequency
  IN <<value.id,
       ElementAt(referenceParts, 1),
       ElementAt(referenceParts, 3),
       IF quantity = <<>> THEN <<>> ELSE numberOrEmpty(quantity[1].value),
       IF quantity = <<>> THEN <<>> ELSE textOrEmpty(quantity[1].unit),
       numberOrEmpty(frequency)>>

\* The two codes the projection looks for, each standing for its value.
LoincCode ==
  [systolicBloodPressure |-> "systolicBloodPressure",
   diastolicBloodPressure |-> "diastolicBloodPressure"]

BloodPressureHeaders ==
  <<
    <<"i", "d">>,
    <<"s", "y", "s", "t", "o", "l", "i", "c", "V", "a", "l", "u", "e">>,
    <<"s", "y", "s", "t", "o", "l", "i", "c", "U", "n", "i", "t">>,
    <<"d", "i", "a", "s", "t", "o", "l", "i", "c", "V", "a", "l", "u", "e">>,
    <<"d", "i", "a", "s", "t", "o", "l", "i", "c", "U", "n", "i", "t">>,
    <<"e", "f", "f", "e", "c", "t", "i", "v", "e", "D", "a", "t", "e", "T", "i", "m", "e">>
  >>

\* components.find(component => component.code.coding?.some(coding =>
\* coding.code === code)): the first such component as <<component>>, or
\* <<>>. A missing coding list reads as an empty one.
RECURSIVE find(_, _)
find(components, code) ==
  IF components = <<>>
  THEN <<>>
  ELSE IF \E i \in DOMAIN Head(components).coding :
            Head(components).coding[i] = code
       THEN <<Head(components)>>
       ELSE find(Tail(components), code)

\* The row of a blood pressure observation; a missing component list reads
\* as an empty one.
bloodPressureRow(value) ==
  LET systolicComponent ==
        find(value.component, LoincCode.systolicBloodPressure)
      diastolicComponent ==
        find(value.component, LoincCode.diastolicBloodPressure)
      quantityOf(found) == IF found = <<>> THEN <<>> ELSE found[1].valueQuantity
      valueOf(q) == IF q = <<>> THEN <<>> ELSE numberOrEmpty(q[1].value)
      unitOf(q) == IF q = <<>> THEN <<>> ELSE textOrEmpty(q[1].unit)
  IN <<value.id,
       valueOf(quantityOf(systolicComponent)),
       unitOf(quantityOf(systolicComponent)),
       valueOf(quantityOf(diastolicComponent)),
       unitOf(quantityOf(diastolicComponent)),
       IF value.effectiveDateTime = <<>>
       THEN <<>>
       ELSE toISOString(value.effectiveDateTime[1])>>

\* ------------------------------------------------------------ row inputs
Quantities == [value : Optional({0, 12}), unit : Optional({<<>>, <<"m", "g">>})]

Dosages ==
  {<<>>} \cup
    {<<[doseQuantity |-> q, frequency |-> f]>> :
       q \in Optional(Quantities), f \in Optional({2})}

MedicationRequests ==
  [id : {<<"m", "1">>},
   reference : Optional(StringsUpTo({"a", "/"}, MaxReferenceLen)),
   dosageInstruction : Dosages]

Codings ==
  {<<>>, <<LoincCode.systolicBloodPressure>>,
   <<LoincCode.diastolicBloodPressure>>, <<"heartRate">>}

Components == [coding : Codings, valueQuantity : Optional(Quantities)]

BloodPressureObservations ==
  [id : {<<"o", "1">>},
   component : UNION {[1..n -> Components] : n \in 0..MaxComponents},
   effectiveDateTime : Optional({[year |-> 2024, month |-> 3, day |-> 9]})]

applyMedicationRequestRow ==
  /\ fn = "medicationRequestRow"
  /\ output = <<>>
  /\ output' =
       <<createCsvBuffer(MedicationHeaders, <<medicationRequestRow(input)>>)>>
  /\ UNCHANGED <<exportState, fn, input>>

applyBloodPressureRow ==
  /\ fn = "bloodPressureRow"
  /\ output = <<>>
  /\ output' =
       <<createCsvBuffer(BloodPressureHeaders, <<bloodPressureRow(input)>>)>>
  /\ UNCHANGED <<exportState, fn, input>>

RowsInit ==
  /\ TablesIdle
  /\ output = <<>>
  /\ \/ fn = "medicationRequestRow" /\ input \in MedicationRequests
     \/ fn = "bloodPressureRow" /\ input \in BloodPressureObservations

RowsNext == applyMedicationRequestRow \/ applyBloodPressureRow

SpecRows == RowsInit /\ [][RowsNext]_vars

\* ------------------------------------------------------------ properties
MedicationRowBuilt == fn = "medicationRequestRow" /\ output # <<>>
BloodPressureRowBuilt == fn = "bloodPressureRow" /\ output # <<>>

\* The cells of the record's line, as a reader of the table sees them.
NewLines == {i \in DOMAIN output[1] : output[1][i] = "\n"}

\* Neither the headers nor the cells of these records hold a newline, so
\* the record's line is what follows the only newline of the text.
RecordCells ==
  LET start == CHOOSE i \in NewLines : TRUE
  IN parseCsv(SubSeq(output[1], start + 1, Len(output[1])))[1]

Reference == IF input.reference = <<>> THEN <<>> ELSE input.reference[1]

Slashes == {i \in DOMAIN Reference : Reference[i] = "/"}

NumSegments == Cardinality(Slashes) + 1

\* The text between the first slash and the next one or the end.
SecondSegment ==
  LET first == CHOOSE i \in Slashes : \A j \in Slashes : i <= j
      later == {i \in Slashes : i > first} \cup {Len(Reference) + 1}
      next == CHOOSE i \in later : \A j \in later : i <= j
  IN SubSeq(Reference, first + 1, next - 1)

HasComponent(code) ==
  \E i \in DOMAIN input.component :
    \E k \in DOMAIN input.component[i].coding :
      input.component[i].coding[k] = code

\* The first component that carries the code.
FirstComponent(code) ==
  LET carrying == {i \in DOMAIN input.component :
                     \E k \in DOMAIN input.component[i].coding :
                       input.component[i].coding[k] = code}
  IN input.component[CHOOSE i \in carrying : \A j \in carrying : i <= j]

SystolicOnly ==
  /\ HasComponent(LoincCode.systolicBloodPressure)
  /\ ~HasComponent(LoincCode.diastolicBloodPressure)

MissingValuesEmpty ==
  /\ MedicationRowBuilt =>
       /\ Cardinality(NewLines) = 1
       /\ Len(RecordCells) = Len(MedicationHeaders)
       /\ NumSegments < 4 => RecordCells[3] = <<>>
       /\ NumSegments < 2 => RecordCells[2] = <<>>
       /\ input.dosageInstruction = <<>> =>
            RecordCells[4] = <<>> /\ RecordCells[5] = <<>> /\ RecordCells[6] = <<>>
  /\ BloodPressureRowBuilt =>
       /\ Cardinality(NewLines) = 1
       /\ Len(RecordCells) = Len(BloodPressureHeaders)
       /\ ~HasComponent(LoincCode.systolicBloodPressure) =>
            RecordCells[2] = <<>> /\ RecordCells[3] = <<>>
       /\ ~HasComponent(LoincCode.diastolicBloodPressure) =>
            RecordCells[4] = <<>> /\ RecordCells[5] = <<>>
       /\ input.effectiveDateTime = <<>> => RecordCells[6] = <<>>

\* C15 as stated: a missing value gives an empty cell and the number of
\* cells is fixed; a reference of two segments gives a non-empty medication
\* code, and an observation with a systolic and no diastolic component gives
\* non-empty systolic cells.
C15_PresentValuesNonEmpty ==
  /\ MissingValuesEmpty
  /\ MedicationRowBuilt /\ NumSegments = 2 => RecordCells[2] # <<>>
  /\ BloodPressureRowBuilt /\ SystolicOnly =>
       RecordCells[2] # <<>> /\ RecordCells[3] # <<>>

\* C15: a missing value gives an empty cell and the number of cells is
\* fixed; a reference of two or more segments gives its second segment as
\* the medication code, empty when that segment is empty; an observation
\* with a systolic and no diastolic component gives empty diastolic cells,
\* and its systolic value and unit cells are non-empty exactly when the
\* first systolic component has a quantity with a value and with a unit
\* that is not the empty text.
C15_MissingValuesEmpty ==
  /\ MissingValuesEmpty
  /\ MedicationRowBuilt /\ NumSegments >= 2 => RecordCells[2] = SecondSegment
  /\ BloodPressureRowBuilt /\ SystolicOnly =>
       LET quantity ==
             FirstComponent(LoincCode.systolicBloodPressure).valueQuantity
       IN /\ RecordCells[2] # <<>> <=>
               (quantity # <<>> /\ quantity[1].value # <<>>)
          /\ RecordCells[3] # <<>> <=>
               (quantity # <<>> /\ quantity[1].unit \notin {<<>>, << <<>> >>})

C15_Witness ==
  /\ BloodPressureRowBuilt
  /\ SystolicOnly
  /\ RecordCells[2] = <<"1", "2">>
  /\ RecordCells[3] = <<"m", "g">>
  /\ RecordCells[4] = <<>>
  /\ Len(input.component) = MaxComponents

====
